---- MODULE Spec2Model ----
(***************************************************************************)
(* Model of src/main.py: a Telegram bot (aiogram handlers behind a FastAPI *)
(* webhook) that downloads YouTube media through yt_dlp and returns the    *)
(* file or a direct link.                                                  *)
(*                                                                         *)
(* Spec    : the handlers on_plain_link, cmd_audio, cmd_mp3, cmd_video     *)
(*           running as tasks of one asyncio event loop.                   *)
(* FnSpec  : the helper functions _send_file_or_link,                      *)
(*           _handle_download_error and download_audio_mp3 applied to      *)
(*           inputs drawn from bounded sets.                               *)
(***************************************************************************)
EXTENDS Integers, Sequences, FiniteSets

VARIABLES
    FFMPEG_PATH,       \* TRUE iff imageio_ffmpeg supplied an executable (main.py:28-33)
    YT_COOKIES,        \* os.getenv("YT_COOKIES"): a path, or "None" if unset or empty
    pc,                \* position of each request's handler task
    msg,               \* the message text of each request: command and argument
    replies,           \* per request, the m.answer* calls made, in order, with their outcome
    gwCalls,           \* per request, the number of _extract_info calls
    gwFormat,          \* per request, the "format" option handed to yt_dlp
    running,           \* the task that occupies the event-loop thread inside yt_dlp, or 0
    probe,             \* FnSpec: the function under test and its arguments
    ret                \* FnSpec: <<>> before the call, <<result>> after it

vars == <<FFMPEG_PATH, YT_COOKIES, pc, msg, replies, gwCalls,
          gwFormat, running, probe, ret>>

cfgVars == <<FFMPEG_PATH, YT_COOKIES>>

---------------------------------------------------------------------------
(* Bounds of the model *)

NumReqs == 2        \* concurrent chat updates
SizeSpread == 1     \* file sizes range over MAX_SEND_BYTES - SizeSpread .. + SizeSpread
MaxTitleLen == 2    \* characters in a video title
MaxDirFiles == 2    \* .mp3 files already present in BASE_DIR

Reqs == 1..NumReqs

---------------------------------------------------------------------------
(* Process configuration *)

MAX_SEND_BYTES == 48 * 1024 * 1024

CookieFile == "/cookies.txt"

\* Variant of CookiesPath that does not look whether the file exists.
CookiesPathIgnoresFile(exists) == YT_COOKIES

\* main.py:56-61; exists: what Path(YT_COOKIES).exists() answers at the call.
CookiesPath(exists) ==
    IF YT_COOKIES = "None" THEN "None"
    ELSE IF exists THEN YT_COOKIES ELSE "None"

\* main.py:18-33: read once at import, never assigned again.
ConfigInit ==
    /\ FFMPEG_PATH \in BOOLEAN
    /\ YT_COOKIES \in {"None", CookieFile}

---------------------------------------------------------------------------
(* Replies: the calls a handler makes on the chat transport *)

\* k: which reply; a, b: its variable parts (strings); t: the title it
\* carries, a sequence of characters.
Reply(k, a, b, t) == [k |-> k, a |-> a, b |-> b, t |-> t]

\* The entry a call leaves in a request's log: which reply, its variable
\* part, and whether the awaited call returned (ok) or raised.  The title
\* and the URL of a link message are not logged.
Sent(rep, ok) == [k |-> rep.k, a |-> rep.a, ok |-> ok]

Last(s) == s[Len(s)]

---------------------------------------------------------------------------
(* Messages and routing (router.message filters, main.py:193,203,216,231) *)

\* A message is a command, or a plain text matching YOUTUBE_RX, and the
\* text after the command, if any: m.text.split(maxsplit=1) has two parts
\* iff hasArg.  A plain link is itself the URL.
Messages ==
    {[cmd |-> c, hasArg |-> h] : c \in {"audio", "mp3", "video"}, h \in BOOLEAN}
      \cup {[cmd |-> "plain", hasArg |-> TRUE]}

NoMsg == [cmd |-> "none", hasArg |-> FALSE]

\* The caption kind each handler passes to _send_file_or_link.
KindOf(cmd) == IF cmd = "video" THEN "video" ELSE "audio"

\* The progress acknowledgement of each handler (main.py:196,209,224,237).
AckOf(cmd) == Reply("ack", cmd, "", <<>>)

\* The usage hint of each command (main.py:207,222,235).
UsageOf(cmd) == Reply("usage", cmd, "", <<>>)

\* main.py:219
ToolUnavailable == Reply("tool_unavailable", "", "", <<>>)

---------------------------------------------------------------------------
(* Format selectors: the "format" option, split at "/" into its            *)
(* alternatives, which yt_dlp tries from left to right.                    *)

\* main.py:124
AudioM4aFormat == <<"bestaudio[ext=m4a]", "bestaudio", "best">>

\* main.py:137
AudioMp3Format == <<"bestaudio", "best">>

\* Variant of VideoFormat without the size-capped "best" alternative.
VideoFormatThree == <<"mp4[height<=720][filesize<48M]", "mp4[height<=480]", "best">>

\* main.py:159
VideoFormat == <<"mp4[height<=720][filesize<48M]", "mp4[height<=480]",
                 "best[filesize<48M]", "best">>

FormatOf(cmd) ==
    CASE cmd = "video" -> VideoFormat
      [] cmd = "mp3"   -> AudioMp3Format
      [] OTHER         -> AudioM4aFormat

---------------------------------------------------------------------------
(* _send_file_or_link (main.py:90-116) *)

Sizes == {0} \cup ((MAX_SEND_BYTES - SizeSpread) .. (MAX_SEND_BYTES + SizeSpread))

\* The size yt_dlp reports in the metadata (filesize_approx), or -1 if none.
Estimates == {-1, MAX_SEND_BYTES - SizeSpread, MAX_SEND_BYTES + SizeSpread}

\* Sequences over S of length lo..hi.
SeqsOf(S, lo, hi) == UNION {[1..n -> S] : n \in lo..hi}

\* Video titles: "/" stands for the characters yt_dlp replaces in file names.
TitleChars == {"a", "/"}
Titles == SeqsOf(TitleChars, 1, MaxTitleLen)

\* info as the code reads it: the keys "title" (hasTitle: present or not),
\* "url" ("None": missing or empty) and the size estimate.
Infos ==
    [hasTitle : {TRUE}, title : Titles, url : {"None", "https://stream"},
     estimate : Estimates]
      \cup [hasTitle : {FALSE}, title : {<<>>}, url : {"None", "https://stream"},
            estimate : Estimates]

\* fpath as _send_file_or_link sees it: whether it exists, and its st_size.
Files == [exists : BOOLEAN, size : Sizes]

\* Variant of SendsInline that excludes the cap itself.
SendsInlineBelowCap(file) == file.exists /\ file.size < MAX_SEND_BYTES

\* main.py:96
SendsInline(file) == file.exists /\ file.size <= MAX_SEND_BYTES

\* main.py:113: the last line of the link message
LinkCaveat == "if the link stops working, send the command again"

\* Variant of LinkOrUnable that never reports the delivery as impossible.
LinkAlways(info) ==
    Reply("link", LinkCaveat, info.url,
          IF info.hasTitle THEN info.title ELSE <<"media">>)

\* main.py:106-116: info.get("url"), info.get("title", "media")
LinkOrUnable(info) ==
    LET stream_url == info.url
        title == IF info.hasTitle THEN info.title ELSE <<"media">>
    IN  IF stream_url # "None"
        THEN Reply("link", LinkCaveat, stream_url, title)
        ELSE Reply("unable", "", "", <<>>)

SendFileOrLink(file, info, kind) ==
    IF SendsInline(file) THEN Reply("inline", kind, "", <<>>) ELSE LinkOrUnable(info)

---------------------------------------------------------------------------
(* _handle_download_error (main.py:167-191) *)

\* The substrings the classifier looks for in str(e).
Markers == {"Sign in to confirm", "account", "This video is private",
            "The uploader has not made this video available in your country"}

\* An exception: whether it is a yt_dlp DownloadError, and which of the
\* markers its text contains.
Excs == [isDownloadError : BOOLEAN, text : SUBSET Markers]

\* The file system as the classifier finds it: is the cookie file there.
CookieFileStates == IF YT_COOKIES = "None" THEN {FALSE} ELSE BOOLEAN

\* main.py:170
IsAuthRequired(e) ==
    e.isDownloadError /\ ("Sign in to confirm" \in e.text \/ "account" \in e.text)

\* main.py:171-176
CookiesHint(exists) == IF CookiesPath(exists) = "None" THEN "hint" ELSE ""

\* Variant of HandleDownloadError that tests the private marker first.
HandleDownloadErrorPrivateFirst(e, exists) ==
    IF "This video is private" \in e.text THEN Reply("private", "", "", <<>>)
    ELSE IF IsAuthRequired(e) THEN Reply("auth", CookiesHint(exists), "", <<>>)
    ELSE IF "The uploader has not made this video available in your country"
               \in e.text
         THEN Reply("geo", "", "", <<>>)
    ELSE Reply("unknown", "", "", <<>>)

\* main.py:167-191
HandleDownloadError(e, exists) ==
    IF IsAuthRequired(e) THEN Reply("auth", CookiesHint(exists), "", <<>>)
    ELSE IF "This video is private" \in e.text THEN Reply("private", "", "", <<>>)
    ELSE IF "The uploader has not made this video available in your country"
               \in e.text
         THEN Reply("geo", "", "", <<>>)
    ELSE Reply("unknown", "", "", <<>>)

---------------------------------------------------------------------------
(* download_audio_mp3 (main.py:132-149): locating the transcoded file *)

\* File names are sequences of characters; ".mp3" is one character.
NameChars == {"a", "b", "_"}
Mp3Names ==
    {stem \o <<".mp3">> : stem \in SeqsOf(NameChars, 1, MaxTitleLen) \cup {<<"NA">>}}

\* The sets of at most k elements of S.
UpTo(S, k) == {{}} \cup {{f[i] : i \in 1..k} : f \in [1..k -> S]}

\* The .mp3 files BASE_DIR may hold when the glob runs: BASE_DIR is shared
\* by all requests and never cleaned.
Dirs == UpTo(Mp3Names, MaxDirFiles)

\* yt_dlp's file-name sanitisation of %(title)s.
Sanitize(title) == [i \in 1..Len(title) |-> IF title[i] = "/" THEN "_" ELSE title[i]]

\* main.py:146: prepare_filename(info) with the suffix replaced by .mp3;
\* a missing title is rendered "NA" by the output template.
BasePath(info) ==
    (IF info.hasTitle THEN Sanitize(info.title) ELSE <<"NA">>) \o <<".mp3">>

\* Python's  t in name  on strings.
Contains(name, t) ==
    \E i \in 0..(Len(name) - Len(t)) : SubSeq(name, i + 1, i + Len(t)) = t

\* main.py:148: the glob yields the directory's .mp3 files in no defined
\* order, so next(...) may return any file that matches; base otherwise.
Mp3Finals(info, dir) ==
    LET title == IF info.hasTitle THEN info.title ELSE <<>>
        matches == {p \in dir : Contains(p, title)}
    IN  IF matches # {} THEN matches ELSE {BasePath(info)}

---------------------------------------------------------------------------
(* The handlers as tasks of the event loop *)

Init ==
    /\ ConfigInit
    /\ pc = [r \in Reqs |-> "queued"]
    /\ msg = [r \in Reqs |-> NoMsg]
    /\ replies = [r \in Reqs |-> <<>>]
    /\ gwCalls = [r \in Reqs |-> 0]
    /\ gwFormat = [r \in Reqs |-> <<>>]
    /\ running = 0
    /\ probe = [fn |-> "none"]
    /\ ret = <<>>

\* Variant of FirstReply in which cmd_mp3 does not test FFMPEG_PATH.
FirstReplyNoToolCheck(m) ==
    IF ~m.hasArg THEN UsageOf(m.cmd) ELSE AckOf(m.cmd)

\* Variant of FirstReply in which the commands do not test for an argument.
FirstReplyNoArgCheck(m) ==
    IF m.cmd = "mp3" /\ ~FFMPEG_PATH THEN ToolUnavailable ELSE AckOf(m.cmd)

\* The first synchronous stretch of a handler, up to and including its
\* first awaited reply (main.py:194-196, 204-209, 217-224, 232-237).
\* cmd_mp3 tests FFMPEG_PATH before it looks at the argument.
FirstReply(m) ==
    IF m.cmd = "mp3" /\ ~FFMPEG_PATH THEN ToolUnavailable
    ELSE IF ~m.hasArg THEN UsageOf(m.cmd)
    ELSE AckOf(m.cmd)

\* telegram_webhook feeds the update to the dispatcher, which runs the one
\* handler whose filter matches (main.py:247-255).
Dispatch(r) ==
    /\ pc[r] = "queued"
    /\ running = 0
    /\ \E m \in Messages, ok \in BOOLEAN :
         LET first == FirstReply(m) IN
         /\ msg' = [msg EXCEPT ![r] = m]
         /\ replies' = [replies EXCEPT ![r] = <<Sent(first, ok)>>]
         /\ pc' = [pc EXCEPT ![r] = IF first.k = "ack" /\ ok THEN "acked" ELSE "done"]
    /\ UNCHANGED <<cfgVars, gwCalls, gwFormat, running, probe, ret>>

\* download_*: the handler calls _extract_info, a plain function call that
\* keeps the event-loop thread until yt_dlp returns (main.py:128,144,161).
GatewayCall(r) ==
    /\ pc[r] = "acked"
    /\ running = 0
    /\ running' = r
    /\ gwCalls' = [gwCalls EXCEPT ![r] = @ + 1]
    /\ gwFormat' = [gwFormat EXCEPT ![r] = FormatOf(msg[r].cmd)]
    /\ pc' = [pc EXCEPT ![r] = "in_gateway"]
    /\ UNCHANGED <<cfgVars, msg, replies, probe, ret>>

\* What the delivery raises (aiogram's Telegram errors, OSError from the
\* file): not DownloadErrors, and texts without the classifier's markers.
TransportExcs == {e \in Excs : ~e.isDownloadError /\ e.text = {}}

\* Variant of ExceptClause that swallows the exception.
ExceptClauseSilent(e, exists, errOk) == <<>>

\* The except clause of a handler: one call of _handle_download_error
\* (main.py:200-201, 213-214, 228-229, 241-242).
ExceptClause(e, exists, errOk) == <<Sent(HandleDownloadError(e, exists), errOk)>>

\* What download_audio_m4a / download_video can hand to _send_file_or_link:
\* fpath is prepare_filename(info), which yt_dlp wrote or did not write.
PlainDeliveries(kind) ==
    {SendFileOrLink(file, info, kind) : file \in Files, info \in Infos}

\* What download_audio_mp3 can hand to it: fpath is the path picked in
\* BASE_DIR, which exists iff it is one of the directory's files.
Mp3Deliveries ==
    UNION {UNION {{SendFileOrLink([exists |-> final \in dir, size |-> size], info, "audio")
                     : final \in Mp3Finals(info, dir), size \in Sizes}
                  : dir \in Dirs}
           : info \in Infos}

AudioDeliveries == PlainDeliveries("audio")
VideoDeliveries == PlainDeliveries("video")

\* main.py:198-199, 211-212, 226-227, 239-240
Deliveries(cmd) ==
    CASE cmd = "mp3"   -> Mp3Deliveries
      [] cmd = "video" -> VideoDeliveries
      [] OTHER         -> AudioDeliveries

\* yt_dlp raises e: the handler's except clause answers (main.py:200-201).
GatewayRaises(r) ==
    /\ pc[r] = "in_gateway"
    /\ running = r
    /\ \E h \in {ExceptClause(e, x, errOk) :
                     e \in Excs, x \in CookieFileStates, errOk \in BOOLEAN} :
         replies' = [replies EXCEPT ![r] = @ \o h]
    /\ pc' = [pc EXCEPT ![r] = "done"]
    /\ running' = 0
    /\ UNCHANGED <<cfgVars, msg, gwCalls, gwFormat, probe, ret>>

\* yt_dlp returns info: the handler computes the path and delivers; the
\* delivery either completes or raises, and then the except clause answers
\* (main.py:198-201 and the same lines of the other handlers).
GatewayReturns(r) ==
    /\ pc[r] = "in_gateway"
    /\ running = r
    /\ \E d \in Deliveries(msg[r].cmd) :
         \/ replies' = [replies EXCEPT ![r] = @ \o <<Sent(d, TRUE)>>]
         \/ \E h \in {ExceptClause(e, x, errOk) :
                          e \in TransportExcs, x \in CookieFileStates, errOk \in BOOLEAN} :
              replies' = [replies EXCEPT ![r] = @ \o <<Sent(d, FALSE)>> \o h]
    /\ pc' = [pc EXCEPT ![r] = "done"]
    /\ running' = 0
    /\ UNCHANGED <<cfgVars, msg, gwCalls, gwFormat, probe, ret>>

Next ==
    \E r \in Reqs :
        \/ Dispatch(r)
        \/ GatewayCall(r)
        \/ GatewayRaises(r)
        \/ GatewayReturns(r)

Spec == Init /\ [][Next]_vars

---------------------------------------------------------------------------
(* The helper functions on their own: FnSpec draws a call and applies it *)

Kinds == {"audio", "video", "document"}

SendProbes ==
    [fn : {"_send_file_or_link"}, file : Files, info : Infos, kind : Kinds]

ErrorProbes ==
    [fn : {"_handle_download_error"}, e : Excs, cookieFileExists : BOOLEAN]

\* download_audio_mp3 reads only the title of info.
Mp3Probes ==
    [fn : {"download_audio_mp3"},
     info : {i \in Infos : i.url = "None" /\ i.estimate = -1},
     dir : Dirs]

FnInit ==
    /\ \/ /\ probe \in ErrorProbes
          /\ ConfigInit
          /\ probe.cookieFileExists \in CookieFileStates
       \/ /\ probe \in SendProbes \cup Mp3Probes
          /\ FFMPEG_PATH = TRUE
          /\ YT_COOKIES = "None"
    /\ ret = <<>>
    /\ pc = [r \in Reqs |-> "done"]
    /\ msg = [r \in Reqs |-> NoMsg]
    /\ replies = [r \in Reqs |-> <<>>]
    /\ gwCalls = [r \in Reqs |-> 0]
    /\ gwFormat = [r \in Reqs |-> <<>>]
    /\ running = 0

mainVars == <<cfgVars, pc, msg, replies, gwCalls, gwFormat, running>>

ApplySendFileOrLink ==
    /\ probe.fn = "_send_file_or_link"
    /\ ret = <<>>
    /\ ret' = <<SendFileOrLink(probe.file, probe.info, probe.kind)>>
    /\ UNCHANGED <<mainVars, probe>>

ApplyHandleDownloadError ==
    /\ probe.fn = "_handle_download_error"
    /\ ret = <<>>
    /\ ret' = <<HandleDownloadError(probe.e, probe.cookieFileExists)>>
    /\ UNCHANGED <<mainVars, probe>>

ApplyDownloadAudioMp3 ==
    /\ probe.fn = "download_audio_mp3"
    /\ ret = <<>>
    /\ \E final \in Mp3Finals(probe.info, probe.dir) : ret' = <<final>>
    /\ UNCHANGED <<mainVars, probe>>

FnNext ==
    \/ ApplySendFileOrLink
    \/ ApplyHandleDownloadError
    \/ ApplyDownloadAudioMp3

FnSpec == FnInit /\ [][FnNext]_vars

---------------------------------------------------------------------------
(* Properties of the handlers (Spec) *)

Commands == {"audio", "mp3", "video"}

\* The calls of request r the transport accepted, the acknowledgement aside.
Terminal(r) ==
    {i \in 1..Len(replies[r]) : replies[r][i].ok /\ replies[r][i].k # "ack"}

DeliveryKinds == {"inline", "link", "unable"}

\* Every call of request r that raised was a call of the delivery step.
OnlyDeliveryRaised(r) ==
    \A i \in 1..Len(replies[r]) : ~replies[r][i].ok => replies[r][i].k \in DeliveryKinds

\* C1: an /mp3 request handled while FFMPEG_PATH is unset never calls the
\* gateway; the handler's one and only call is the tool-unavailable reply,
\* whether or not the message carries a URL.
C1_Mp3WithoutFfmpegNeverReachesGateway ==
    \A r \in Reqs :
        (msg[r].cmd = "mp3" /\ ~FFMPEG_PATH) =>
            /\ gwCalls[r] = 0
            /\ pc[r] = "done"
            /\ Len(replies[r]) = 1
            /\ replies[r][1].k = "tool_unavailable"

C1_Witness ==
    \E r \in Reqs :
        /\ msg[r] = [cmd |-> "mp3", hasArg |-> TRUE]
        /\ ~FFMPEG_PATH
        /\ pc[r] = "done"
        /\ replies[r] = <<Sent(ToolUnavailable, TRUE)>>

C7_UsageHintWhateverConfig ==
    \A r \in Reqs :
        (msg[r].cmd \in Commands /\ ~msg[r].hasArg) =>
            /\ gwCalls[r] = 0
            /\ Len(replies[r]) = 1
            /\ replies[r][1].k = "usage" /\ replies[r][1].a = msg[r].cmd

\* C7 as amended: a command without an argument makes one call and no
\* gateway call; the call is the command's usage hint, except that /mp3
\* with FFMPEG_PATH unset answers with the tool-unavailable reply.
C7_UsageHintUnlessToolUnavailable ==
    \A r \in Reqs :
        (msg[r].cmd \in Commands /\ ~msg[r].hasArg) =>
            /\ gwCalls[r] = 0
            /\ pc[r] = "done"
            /\ Len(replies[r]) = 1
            /\ IF msg[r].cmd = "mp3" /\ ~FFMPEG_PATH
               THEN replies[r][1].k = "tool_unavailable"
               ELSE replies[r][1].k = "usage" /\ replies[r][1].a = msg[r].cmd

C7_Witness ==
    \E r \in Reqs :
        /\ msg[r] = [cmd |-> "mp3", hasArg |-> FALSE]
        /\ FFMPEG_PATH
        /\ replies[r] = <<Sent(UsageOf("mp3"), TRUE)>>

\* C8 as claimed: while a request is inside the gateway call, the event
\* loop can still take up another update waiting to be handled.
C8_LoopServesOthersDuringGateway ==
    \A r, q \in Reqs :
        (pc[r] = "in_gateway" /\ pc[q] = "queued") => ENABLED Dispatch(q)

\* C9 as claimed: the selector of a /video request has exactly the three
\* alternatives mp4<=720p below the cap, mp4<=480p, best.
C9_ThreeStepLadder ==
    \A r \in Reqs :
        (msg[r].cmd = "video" /\ gwCalls[r] > 0) =>
            gwFormat[r] = <<"mp4[height<=720][filesize<48M]", "mp4[height<=480]", "best">>

\* C9 as amended: the selector of every /video request has these four
\* alternatives in this order: mp4<=720p with filesize<48M, mp4<=480p,
\* best with filesize<48M, best.
C9_FourStepLadder ==
    \A r \in Reqs :
        (msg[r].cmd = "video" /\ gwCalls[r] > 0) =>
            gwFormat[r] = <<"mp4[height<=720][filesize<48M]", "mp4[height<=480]",
                            "best[filesize<48M]", "best">>

C9_Witness ==
    \E r \in Reqs :
        msg[r].cmd = "video" /\ gwCalls[r] = 1 /\ Len(gwFormat[r]) = 4

---------------------------------------------------------------------------
(* Properties of the helper functions (FnSpec) *)

Called(fn) == probe.fn = fn /\ ret # <<>>

\* C2: _send_file_or_link sends the file inline iff it exists and its size
\* on disk is at most MAX_SEND_BYTES, whatever the estimate says.
C2_InlineIffActualSizeWithinCap ==
    Called("_send_file_or_link") =>
        ((ret[1].k = "inline") <=>
            (probe.file.exists /\ probe.file.size <= 50331648))

\* A file of exactly the cap, estimated above it, goes inline.
C2_Witness ==
    /\ Called("_send_file_or_link")
    /\ probe.file = [exists |-> TRUE, size |-> 50331648]
    /\ probe.info.estimate > 50331648
    /\ ret[1].k = "inline"

\* C6: when the file is not sent inline, the reply is the link message with
\* the title (or "media"), the stream URL and the caveat if info has a
\* stream URL, and the unable-to-deliver message otherwise.
C6_LinkOrUnableWhenNotInline ==
    (Called("_send_file_or_link") /\ ~(probe.file.exists /\ probe.file.size <= 50331648)) =>
        IF probe.info.url # "None"
        THEN ret[1] = [k |-> "link", a |-> LinkCaveat, b |-> probe.info.url,
                       t |-> IF probe.info.hasTitle THEN probe.info.title
                             ELSE <<"media">>]
        ELSE ret[1].k = "unable"

\* Neither a file nor a stream URL: reported as undeliverable.
C6_Witness ==
    /\ Called("_send_file_or_link")
    /\ ~probe.file.exists
    /\ probe.info.url = "None"
    /\ ret[1].k = "unable"

\* C4 as claimed: every failure whose text has the login marker is answered
\* with the AuthRequired reply.
C4_LoginMarkerAlwaysAuth ==
    (Called("_handle_download_error") /\ "Sign in to confirm" \in probe.e.text) =>
        ret[1].k = "auth"

\* C4 as amended: every DownloadError whose text has a login marker ("Sign
\* in to confirm", or "account" in any case) is answered with the
\* AuthRequired reply, whatever other markers the text has.
C4_DownloadErrorLoginMarkerAuth ==
    (/\ Called("_handle_download_error")
     /\ probe.e.isDownloadError
     /\ ("Sign in to confirm" \in probe.e.text \/ "account" \in probe.e.text)) =>
        ret[1].k = "auth"

C4_Witness ==
    /\ Called("_handle_download_error")
    /\ probe.e.isDownloadError
    /\ {"Sign in to confirm", "This video is private"} \subseteq probe.e.text
    /\ ret[1].k = "auth"

\* C5 as claimed: the AuthRequired reply has the cookie hint iff YT_COOKIES
\* is not set.
C5_HintIffCookiesUnset ==
    (Called("_handle_download_error") /\ ret[1].k = "auth") =>
        ((ret[1].a = "hint") <=> (YT_COOKIES = "None"))

\* C5 as amended: the AuthRequired reply has the cookie hint iff YT_COOKIES
\* is not set or the file it names does not exist.
C5_HintIffNoUsableCookieFile ==
    (Called("_handle_download_error") /\ ret[1].k = "auth") =>
        ((ret[1].a = "hint") <=> (YT_COOKIES = "None" \/ ~probe.cookieFileExists))

C5_Witness ==
    /\ Called("_handle_download_error")
    /\ ret[1].k = "auth"
    /\ YT_COOKIES = CookieFile
    /\ ~probe.cookieFileExists
    /\ ret[1].a = "hint"

\* C10 as claimed: download_audio_mp3 returns the expected path whenever it
\* exists; otherwise a file of the directory whose name contains the title,
\* and the expected path if there is none.
C10_ExpectedPathPreferred ==
    Called("download_audio_mp3") =>
        LET base == BasePath(probe.info)
            title == IF probe.info.hasTitle THEN probe.info.title ELSE <<>>
            matches == {p \in probe.dir : Contains(p, title)}
        IN  IF base \in probe.dir THEN ret[1] = base
            ELSE IF matches # {} THEN ret[1] \in matches
            ELSE ret[1] = base

====
